---- MODULE Spec2Model ----
(***************************************************************************)
(* Model of src/pii_encrypt_md.py: the span-to-text rewriting engine       *)
(* (apply_encryption_replacements, apply_anonymization_replacements), the  *)
(* marker codec (ENCODED_PATTERN, decrypt_markers) and the encrypt and     *)
(* decrypt commands of main().                                             *)
(*                                                                         *)
(* A text is a sequence of one-character strings.  Offsets are Python      *)
(* offsets (0-based, half-open), sequence positions are 1-based.           *)
(***************************************************************************)
EXTENDS Integers, Sequences, FiniteSets, TLC

\* ------------------------------------------------------------------ bounds
\* A document is made of at most MaxParts parts (a part is one character or
\* one longer piece such as a marker); the detector reports spans whose ends
\* lie on part boundaries.
MaxParts == 2
\* The detector reports at most MaxMatches spans for one document.
MaxMatches == 2
\* The longest text whose offsets are resolved to line and column.
MaxChars == 3

\* ------------------------------------------------------------ small helpers
Min(a, b) == IF a < b THEN a ELSE b

\* Python's s[a:b] for a, b >= 0: both ends are clamped to len(s), and the
\* slice is empty when a >= b.
PySlice(s, a, b) ==
  LET lo == Min(a, Len(s))
      hi == Min(b, Len(s))
  IN  IF lo >= hi THEN <<>> ELSE SubSeq(s, lo + 1, hi)

\* Python's s[a:] for a >= 0.
PyFrom(s, a) == PySlice(s, a, Len(s))

RECURSIVE Flatten(_)
Flatten(ss) == IF ss = <<>> THEN <<>> ELSE Head(ss) \o Flatten(Tail(ss))

\* ------------------------------------------------------------- characters
UPPER == {"A","B","C","D","E","F","G","H","I","J","K","L","M",
          "N","O","P","Q","R","S","T","U","V","W","X","Y","Z"}

LOWER == {"a","b","c","d","e","f","g","h","i","j","k","l","m",
          "n","o","p","q","r","s","t","u","v","w","x","y","z"}

DIGIT == {"0","1","2","3","4","5","6","7","8","9"}

\* The character classes of ENCODED_PATTERN: [A-Z_] and [A-Za-z0-9_\-].
EntityClass == UPPER \cup {"_"}

TokenClass == UPPER \cup LOWER \cup DIGIT \cup {"_", "-"}

\* Every character a document of the model can hold, in a fixed order: the
\* cipher's encoding of a plaintext character is its position in this table.
CharTable ==
  << "a","b","c","d","e","f","g","h","i","j","k","l","m","n","o","p",
     "q","r","s","t","u","v","w","x","y","z",
     "A","B","C","D","E","F","G","H","I","J","K","L","M","N","O","P",
     "Q","R","S","T","U","V","W","X","Y","Z",
     "0","1","2","3","4","5","6","7","8","9","_","-",
     "{","}",":","="," ","@",".","\n","[","]" >>

CharIndex(c) == CHOOSE i \in 1..Len(CharTable) : CharTable[i] = c

HexDigits == << "0","1","2","3","4","5","6","7","8","9","a","b","c","d","e","f" >>

HexClass == {HexDigits[i] : i \in 1..Len(HexDigits)}

HexValue(d) == (CHOOSE i \in 1..Len(HexDigits) : HexDigits[i] = d) - 1

\* ------------------------------------------------- the cipher (Fernet)
\* The cipher is an external primitive.  It is modelled by a concrete cipher
\* with Fernet's contract: a token is text in the URL-safe base64 alphabet
\* with "=" padding; it carries a version character, an authentication tag
\* that depends on the key, a per-call nonce and the encoded plaintext;
\* decrypting succeeds exactly on the tokens encrypt_text can produce under
\* the same key and fails (InvalidToken) on every other string.
Keys == {"K1", "K2"}

\* Fernet(key_b64) accepts the key: it is the base64 of 32 bytes.  Fernet
\* raises ValueError on every other value.
FernetKey(key_b64) == key_b64 \in Keys

KeyTag(key) == IF key = "K1" THEN "x" ELSE "y"

\* The nonce of the n-th encrypt_text call of a run (n = 1, 2, ...): every
\* call draws a fresh one.  The nonce "9" is the one of tokens that were
\* produced before the run.
Nonce(n) == CharTable[CharIndex("0") + (n % 9)]

OldNonce == "9"

RECURSIVE EncodeBody(_)
EncodeBody(plaintext) ==
  IF plaintext = <<>> THEN <<>>
  ELSE LET v == CharIndex(Head(plaintext)) - 1
       IN  << HexDigits[(v \div 16) + 1], HexDigits[(v % 16) + 1] >>
             \o EncodeBody(Tail(plaintext))

PadLen(n) == (3 - (n % 3)) % 3

Padding(n) == [i \in 1..PadLen(n) |-> "="]

\* encrypt_text(plaintext, key_b64), with the nonce the call draws.
encrypt_text(plaintext, key_b64, nonce) ==
  << "g", KeyTag(key_b64), nonce >> \o EncodeBody(plaintext)
    \o Padding(Len(plaintext))

RECURSIVE DecodeBody(_)
DecodeBody(body) ==
  IF body = <<>> THEN <<>>
  ELSE << CharTable[16 * HexValue(body[1]) + HexValue(body[2]) + 1] >>
         \o DecodeBody(SubSeq(body, 3, Len(body)))

RECURSIVE TrailingPad(_)
TrailingPad(token) ==
  IF token # <<>> /\ token[Len(token)] = "=" 
  THEN 1 + TrailingPad(SubSeq(token, 1, Len(token) - 1))
  ELSE 0

\* Whether token is one that encrypt_text yields under key_b64.
TokenVerifies(token, key_b64) ==
  /\ Len(token) >= 3
  /\ token[1] = "g"
  /\ token[2] = KeyTag(key_b64)
  /\ token[3] \in DIGIT
  /\ LET pad  == TrailingPad(token)
         body == SubSeq(token, 4, Len(token) - pad)
     IN  /\ Len(body) % 2 = 0
         /\ \A i \in 1..Len(body) : body[i] \in HexClass
         /\ \A i \in 1..(Len(body) \div 2) :
              16 * HexValue(body[2*i - 1]) + HexValue(body[2*i]) < Len(CharTable)
         /\ pad = PadLen(Len(body) \div 2)

\* decrypt_text(token, key_b64): the plaintext, or the exception Fernet
\* raises (ok = FALSE).
decrypt_text(token, key_b64) ==
  IF FernetKey(key_b64) /\ TokenVerifies(token, key_b64)
  THEN [ok |-> TRUE,
        plain |-> DecodeBody(SubSeq(token, 4, Len(token) - TrailingPad(token)))]
  ELSE [ok |-> FALSE, plain |-> <<>>]

\* ------------------------------------------------------- the marker codec
\* Mutant of safe_token: the braces of the f-string are not doubled enough,
\* and the marker is written with single braces.
safe_token_single_braces(entity_type, ciphertext) ==
  << "{", "E", "N", "C", ":" >> \o entity_type \o << ":" >> \o ciphertext \o << "}" >>

\* safe_token = f"{{{{ENC:{m.entity_type}:{ciphertext}}}}}"
safe_token(entity_type, ciphertext) ==
  << "{", "{", "E", "N", "C", ":" >> \o entity_type \o << ":" >>
    \o ciphertext \o << "}", "}" >>

\* The end (1-based, inclusive) of the longest run of characters of class
\* cls that starts at position i of text; i - 1 when the run is empty.
RECURSIVE RunEnd(_, _, _)
RunEnd(text, i, cls) ==
  IF i <= Len(text) /\ text[i] \in cls THEN RunEnd(text, i + 1, cls) ELSE i - 1

NoMatch == [found |-> FALSE, start |-> 0, end |-> 0, entity |-> <<>>, token |-> <<>>]

\* ENCODED_PATTERN.match at offset pos of text:
\*   \{\{ENC:([A-Z_]+):([A-Za-z0-9_\-]+=*)\}\}
\* The delimiter after each greedy run (":", "=" or "}") is outside the run's
\* class, so backtracking to a shorter run can never succeed and the longest
\* runs decide the match.
PatternMatchAt(text, pos) ==
  LET i == pos + 1
  IN  IF i + 5 > Len(text) \/ SubSeq(text, i, i + 5) # << "{", "{", "E", "N", "C", ":" >>
      THEN NoMatch
      ELSE LET eEnd == RunEnd(text, i + 6, EntityClass)
           IN  IF eEnd < i + 6 \/ eEnd + 1 > Len(text) \/ text[eEnd + 1] # ":"
               THEN NoMatch
               ELSE LET tEnd == RunEnd(text, eEnd + 2, TokenClass)
                        pEnd == RunEnd(text, tEnd + 1, {"="})
                    IN  IF \/ tEnd < eEnd + 2
                           \/ pEnd + 2 > Len(text)
                           \/ text[pEnd + 1] # "}"
                           \/ text[pEnd + 2] # "}"
                        THEN NoMatch
                        ELSE [found  |-> TRUE,
                              start  |-> pos,
                              end    |-> pEnd + 2,
                              entity |-> SubSeq(text, i + 6, eEnd),
                              token  |-> SubSeq(text, eEnd + 2, pEnd)]

\* ENCODED_PATTERN.search(text, pos): the leftmost match at or after pos.
RECURSIVE ENCODED_PATTERN(_, _)
ENCODED_PATTERN(text, pos) ==
  IF pos >= Len(text) THEN NoMatch
  ELSE LET m == PatternMatchAt(text, pos)
       IN  IF m.found THEN m ELSE ENCODED_PATTERN(text, pos + 1)

\* ENCODED_PATTERN.findall(text): the non-overlapping matches, left to right.
RECURSIVE findall(_, _)
findall(text, pos) ==
  LET m == ENCODED_PATTERN(text, pos)
  IN  IF m.found THEN << m >> \o findall(text, m.end) ELSE <<>>

\* Mutant of replace: a marker that fails to decrypt is dropped.
replace_drops_failed(text, match, key_b64) ==
  LET r == decrypt_text(match.token, key_b64)
  IN  IF r.ok THEN r.plain ELSE << >>

\* _replace of decrypt_markers: the plaintext, or the marker itself when
\* decrypt_text raises.
replace(text, match, key_b64) ==
  LET r == decrypt_text(match.token, key_b64)
  IN  IF r.ok THEN r.plain ELSE PySlice(text, match.start, match.end)

\* Mutant of sub: the text after the last marker is dropped.
RECURSIVE sub_drops_tail(_, _, _)
sub_drops_tail(md_text, pos, key_b64) ==
  LET m == ENCODED_PATTERN(md_text, pos)
  IN  IF m.found
      THEN PySlice(md_text, pos, m.start) \o replace(md_text, m, key_b64)
             \o sub_drops_tail(md_text, m.end, key_b64)
      ELSE << >>

\* ENCODED_PATTERN.sub(_replace, md_text), from offset pos on.
RECURSIVE sub(_, _, _)
sub(md_text, pos, key_b64) ==
  LET m == ENCODED_PATTERN(md_text, pos)
  IN  IF m.found
      THEN PySlice(md_text, pos, m.start) \o replace(md_text, m, key_b64)
             \o sub(md_text, m.end, key_b64)
      ELSE PyFrom(md_text, pos)

decrypt_markers(md_text, key_b64) == sub(md_text, 0, key_b64)

\* ------------------------------------------------------ the span indexer
\* calculate_line_col_map(text): the start offset of each line.
calculate_line_col_map(text) ==
  LET RECURSIVE Scan(_)
      Scan(i) == IF i > Len(text) THEN <<>>
                 ELSE (IF text[i] = "\n" THEN << i >> ELSE <<>>) \o Scan(i + 1)
  IN  << 0 >> \o Scan(1)

\* A scan that takes a line to begin after the offset of its first character.
offset_to_line_col_strict(offset, line_starts) ==
  LET RECURSIVE Loop(_, _)
      Loop(i, line_index) ==
        IF i > Len(line_starts) THEN line_index
        ELSE IF i = 1 \/ line_starts[i] < offset THEN Loop(i + 1, i - 1)
        ELSE line_index
      line_index == Loop(1, 0)
  IN  [line |-> line_index + 1, column |-> offset - line_starts[line_index + 1] + 1]

\* offset_to_line_col(offset, line_starts): the loop keeps the last index
\* whose start is <= offset and stops at the first start beyond offset.
offset_to_line_col(offset, line_starts) ==
  LET RECURSIVE Loop(_, _)
      Loop(i, line_index) ==
        IF i > Len(line_starts) THEN line_index
        ELSE IF line_starts[i] <= offset THEN Loop(i + 1, i - 1)
        ELSE line_index
      line_index == Loop(1, 0)
  IN  [line |-> line_index + 1, column |-> offset - line_starts[line_index + 1] + 1]

\* ------------------------------------------------------- the match model
\* Scores are counted in hundredths (85 is 0.85).  NoScore is the score None
\* of a detector result, which "r.score or 0.0" turns into 0.0.
NoScore == -1

\* One PiiMatch as analyze_pii builds it from a detector result r: the text
\* is the slice md_text[start:end], line and column are those of start.
PiiMatch(md_text, r) ==
  LET lc == offset_to_line_col(r.start, calculate_line_col_map(md_text))
  IN  [start       |-> r.start,
       end         |-> r.end,
       entity_type |-> r.entity_type,
       score       |-> (IF r.score = NoScore THEN 0 ELSE r.score),
       text        |-> PySlice(md_text, r.start, r.end),
       line        |-> lc.line,
       column      |-> lc.column]

\* analyze_pii(md_text, entities), given the detector's results.
analyze_pii(md_text, results) ==
  [i \in 1..Len(results) |-> PiiMatch(md_text, results[i])]

\* --------------------------------------------------- the replacement engine
\* Mutant of InsertByStartDesc: the sort is ascending (reverse=True is missing).
RECURSIVE InsertByStartAsc(_, _)
InsertByStartAsc(sorted, m) ==
  IF sorted = << >> THEN << m >>
  ELSE IF Head(sorted).start <= m.start
       THEN << Head(sorted) >> \o InsertByStartAsc(Tail(sorted), m)
       ELSE << m >> \o sorted

\* sorted(matches, key=lambda m: m.start, reverse=True): descending by start;
\* the sort is stable, so matches with the same start keep their list order.
RECURSIVE InsertByStartDesc(_, _)
InsertByStartDesc(sorted, m) ==
  IF sorted = <<>> THEN << m >>
  ELSE IF Head(sorted).start >= m.start
       THEN << Head(sorted) >> \o InsertByStartDesc(Tail(sorted), m)
       ELSE << m >> \o sorted

\* Mutant of sorted_reverse: the matches are spliced in list order.
sorted_not_at_all(matches) == matches

\* Mutant of sorted_reverse: the sort is by ascending start, the splices go
\* from the front of the text to its back.
RECURSIVE sorted_forward(_)
sorted_forward(matches) ==
  IF matches = <<>> THEN <<>>
  ELSE InsertByStartAsc(sorted_forward(SubSeq(matches, 1, Len(matches) - 1)),
                        matches[Len(matches)])

RECURSIVE sorted_reverse(_)
sorted_reverse(matches) ==
  IF matches = <<>> THEN <<>>
  ELSE InsertByStartDesc(sorted_reverse(SubSeq(matches, 1, Len(matches) - 1)),
                         matches[Len(matches)])

\* Mutant of splice: the tail is taken from m.start, the span is not removed.
splice_keeps_span(buf, m, replacement) ==
  PySlice(buf, 0, m.start) \o replacement \o PyFrom(buf, m.start)

\* buf = buf[: m.start] + replacement + buf[m.end :]
splice(buf, m, replacement) ==
  PySlice(buf, 0, m.start) \o replacement \o PyFrom(buf, m.end)

\* The text apply_encryption_replacements inserts for m, with the nonce the
\* encrypt_text call draws.
encryption_replacement(m, key_b64, nonce) ==
  safe_token(m.entity_type, encrypt_text(m.text, key_b64, nonce))

\* Python's hash() of a str: 0 for the empty string, otherwise a signed value
\* keyed by the process's hash seed (PYTHONHASHSEED, random by default).  The
\* model keeps the sign and the dependence on seed and text.
HashModulus == 10000

HashSeeds == {0, 1}

RECURSIVE HashFold(_, _)
HashFold(text, h) ==
  IF text = <<>> THEN h
  ELSE HashFold(Tail(text), (h * 31 + CharIndex(Head(text))) % 65536)

hash(text, seed) ==
  IF text = <<>> THEN 0
  ELSE LET h == HashFold(text, 7 + 12345 * seed)
       IN  IF h >= 32768 THEN h - 65536 ELSE h

abs(n) == IF n < 0 THEN 0 - n ELSE n

\* str(n) for n >= 0.
RECURSIVE str(_)
str(n) ==
  IF n < 10 THEN << CharTable[CharIndex("0") + n] >>
  ELSE str(n \div 10) \o << CharTable[CharIndex("0") + (n % 10)] >>

\* A placeholder whose number depends on where the match stands.
anonymization_replacement_by_offset(m, seed) ==
  LET hash_suffix == abs(hash(m.text, seed) + m.start) % HashModulus
  IN  << "[" >> \o m.entity_type \o << "_" >> \o str(hash_suffix) \o << "]" >>

\* The text apply_anonymization_replacements inserts for m.
anonymization_replacement(m, seed) ==
  LET hash_suffix == abs(hash(m.text, seed)) % HashModulus
  IN  << "[" >> \o m.entity_type \o << "_" >> \o str(hash_suffix) \o << "]" >>

\* apply_anonymization_replacements(md_text, matches) as one function, in a
\* process whose hash seed is seed.
apply_anonymization_replacements(md_text, ms, seed) ==
  LET RECURSIVE Loop(_, _)
      Loop(b, todo) ==
        IF todo = << >> THEN b
        ELSE Loop(splice(b, Head(todo), anonymization_replacement(Head(todo), seed)),
                  Tail(todo))
  IN  Loop(md_text, sorted_reverse(ms))

\* ---------------------------------------------------------------- documents
\* A document is a sequence of parts.  A plain part is literal text; a marker
\* part is a marker that an earlier run wrote (plain: what it was written
\* for, key: the key of its token, "none" when the token verifies under no
\* key).
PlainPart(chars) ==
  [kind |-> "plain", chars |-> chars, plain |-> chars, key |-> "none"]

MarkerPart(entity_type, plain, key) ==
  [kind  |-> "marker",
   chars |-> safe_token(entity_type, encrypt_text(plain, key, OldNonce)),
   plain |-> plain,
   key   |-> key]

PERSON == << "P", "E", "R", "S", "O", "N" >>

EMAIL_ADDRESS == << "E","M","A","I","L","_","A","D","D","R","E","S","S" >>

PHONE_NUMBER == << "P","H","O","N","E","_","N","U","M","B","E","R" >>

LOCATION == << "L","O","C","A","T","I","O","N" >>

OldMarkerK1 == MarkerPart(PERSON, << "o", "k" >>, "K1")

OldMarkerK2 == MarkerPart(LOCATION, << "n", "y", "c" >>, "K2")

\* A well-formed marker whose token was corrupted: it verifies under no key.
CorruptMarker ==
  [kind  |-> "marker",
   chars |-> safe_token(PERSON,
               [encrypt_text(<< "o", "k" >>, "K1", OldNonce) EXCEPT ![2] = "z"]),
   plain |-> << >>,
   key   |-> "none"]

\* The beginning of a marker, never closed: plain text.
IncompleteMarker == PlainPart(<< "{","{","E","N","C",":","A",":","g" >>)

Letter(i) == PlainPart(<< CharTable[i] >>)

\* The document of Scenario A, "Contact: john@example.com", in two parts.
ScenarioA ==
  << PlainPart(<< "C","o","n","t","a","c","t",":"," " >>),
     PlainPart(<< "j","o","h","n","@","e","x","a","m","p","l","e",".","c","o","m" >>) >>

\* Documents given to the encrypt command: texts of distinct letters; texts
\* that begin with a piece of marker syntax; the document of Scenario A.
PlainDocs == {[i \in 1..n |-> Letter(i)] : n \in 0..MaxParts}

SpecialDocs ==
  {ScenarioA}
    \cup {<< f >> : f \in {OldMarkerK1, OldMarkerK2, IncompleteMarker}}
    \cup {<< f, Letter(2) >> : f \in {OldMarkerK1, OldMarkerK2, IncompleteMarker}}

EncryptDocs == PlainDocs \cup SpecialDocs

\* Documents given to the decrypt command: any mix of text and markers.
DecryptParts ==
  {Letter(1), OldMarkerK1, OldMarkerK2, CorruptMarker, IncompleteMarker}

DecryptDocs == UNION {[1..n -> DecryptParts] : n \in 0..(MaxParts + 1)}

Text(parts) == Flatten([i \in 1..Len(parts) |-> parts[i].chars])

\* The offset of part boundary i of a document (0 .. Len(parts)); boundary
\* Len(parts) + 1 stands for an offset beyond the end of the text.
RECURSIVE Boundary(_, _)
Boundary(parts, i) ==
  IF i = 0 THEN 0
  ELSE IF i > Len(parts) THEN Len(Text(parts)) + 1
  ELSE Boundary(parts, i - 1) + Len(parts[i].chars)

\* The entity type the detector gives a span, by the part the span starts at.
EntityTable == << PERSON, EMAIL_ADDRESS, PHONE_NUMBER, LOCATION >>

\* The score the detector gives a span, by the boundary the span ends at.
ScoreTable == << 85, NoScore, 0 >>

\* The detector (Presidio's AnalyzerEngine.analyze) is external and its spans
\* are untrusted input: a result is any span between part boundaries,
\* overlapping, empty, reversed by one boundary or beyond the end of the text
\* included, with a score or none.
DetectorSpans(parts) ==
  {[start       |-> Boundary(parts, si),
    end         |-> Boundary(parts, ei),
    entity_type |-> EntityTable[(si % Len(EntityTable)) + 1],
    score       |-> ScoreTable[(ei % Len(ScoreTable)) + 1]] :
     <<si, ei>> \in {p \in (0..Len(parts)) \X (0..(Len(parts) + 1)) : p[2] >= p[1] - 1}}

DetectorResults(parts) ==
  UNION {[1..k -> DetectorSpans(parts)] : k \in 0..MaxMatches}

\* The values of --key: a Fernet key; "short", canonical base64 of fewer than
\* 32 bytes; "bad", a string that base64.urlsafe_b64decode rejects (wrong
\* padding).
GivenKeys == Keys \cup {"short", "bad"}

\* base64.urlsafe_b64decode(key_b64) returns (it raises on "bad" only: the
\* length of the decoded key is not looked at).
KeyDecodes(key_b64) == key_b64 # "bad"

\* ensure_fernet_key(key_b64) for a key that decodes: the key is decoded and
\* encoded again; a canonical base64 string comes back unchanged.
ensure_fernet_key(key_b64) == key_b64

\* Fernet.generate_key(), the branch of ensure_fernet_key for no key: any
\* fresh key.
generate_key == Keys

\* ---------------------------------------------------------------- the state
VARIABLES
  cmd,              \* args.cmd of the command that runs: "encrypt", "decrypt"
  mode,             \* args.mode: "encrypt", "anonymize" ("none" for decrypt)
  args_key,         \* args.key ("none": no --key given)
  print_key,        \* args.print_key
  input_ext,        \* the extension of args.input: ".md" or ".pdf"
  hashseed,         \* the hash seed of the process
  doc,              \* the parts of the input document
  pc,               \* where main() is: "args", "analyzed", "splicing",
                    \* "done" (returned 0), "failed" (returned 1 or raised)
  outdir,           \* encrypt command: the output directory exists
  work_md,          \* encrypt command: the Markdown file the PDF conversion wrote
  key_b64,          \* encrypt command: the key
  md_text,          \* encrypt command: the text read
  matches,          \* encrypt command: the result of analyze_pii
  matches_sorted,   \* the matches apply_*_replacements still has to splice
  buf,              \* the buffer of apply_*_replacements
  substitutions,    \* the splices done so far: <<match, text inserted>>
  out_md,           \* the document the encrypt command wrote
  report,           \* the report the encrypt command wrote
  key_bytes,        \* decrypt command: the key
  dec_md_text,      \* decrypt command: the text read
  encrypted_markers, \* decrypt command: the count of markers found
  out_decrypted,    \* the document the decrypt command wrote
  audit,            \* the audit log
  stdout,           \* the lines printed on standard output
  error,            \* standard error: the message main() printed before it
                    \* returned 1, or the exception that left it uncaught
  exit_code,        \* the exit status of main() (-1: still running)
  offset,           \* the offset given to offset_to_line_col
  line_col,         \* the (line, column) offset_to_line_col returned
  container_pc,     \* where process_in_container is: "entry", "running"
                    \* (inside the try block), "returned"
  container_args,   \* the arguments of process_in_container
  output_dir,       \* process_in_container: the output directory exists
  container_audit,  \* the lines of the audit log of process_in_container
  container_stderr, \* the lines process_in_container printed on stderr
  container_ret,    \* what process_in_container returned (-1: not yet)
  cleanup_pc,       \* where main() of cleanup.py is: "args", "found",
                    \* "deleting", "deleted", "returned"
  cleanup_args,     \* the arguments of cleanup.py
  tree,             \* the directory as it is: its files and directories
  old_files,        \* the result of find_old_files
  confirm,          \* what was typed at the confirmation
  success,          \* the first count delete_files returned
  errors,           \* the second count delete_files returned
  cleanup_audit,    \* the lines of the audit log of cleanup.py
  cleanup_ret       \* what main() of cleanup.py returned (-1: not yet)

\* What offset_to_line_col is called with and returns.
linevars == << offset, line_col >>

\* The state of process_in_container (docker_process.py).
containervars ==
  << container_pc, container_args, output_dir, container_audit,
     container_stderr, container_ret >>

\* The state of the cleanup command (cleanup.py).
cleanupvars ==
  << cleanup_pc, cleanup_args, tree, old_files, confirm, success,
     errors, cleanup_audit, cleanup_ret >>

scriptvars == << containervars, cleanupvars >>

vars ==
  << cmd, mode, args_key, print_key, input_ext, hashseed, doc, pc, outdir,
     work_md, key_b64, md_text, matches, matches_sorted, buf, substitutions,
     out_md, report, key_bytes, dec_md_text, encrypted_markers, out_decrypted,
     audit, stdout, error, exit_code, linevars, scriptvars >>

NoLineCol == [line |-> 0, column |-> 0]

NoFile == [written |-> FALSE, content |-> << >>]

File(text) == [written |-> TRUE, content |-> text]

\* _convert_pdf_if_needed(input_path, outdir): for a PDF input, the file
\* convert_pdf_to_md writes, <outdir>/<base>.md, holding the text of the PDF
\* (text); the command then reads that file.  Nothing for a Markdown input.
convert_pdf_if_needed(ext, text) == IF ext = ".pdf" THEN File(text) ELSE NoFile

NoContainerArgs == [input_file |-> "none", mode |-> "none", entities |-> "none"]

\* process_in_container is not called.
ContainerIdle ==
  /\ container_pc = "idle"
  /\ container_args = NoContainerArgs
  /\ output_dir = FALSE
  /\ container_audit = << >>
  /\ container_stderr = << >>
  /\ container_ret = -1

NoCleanupArgs ==
  [directory |-> "none", retention_days |-> 0, patterns |-> << >>,
   dry_run |-> FALSE, remove_empty_dirs |-> FALSE]

NoTree == [files |-> << >>, dirs |-> {}]

\* The cleanup command is not run.
CleanupIdle ==
  /\ cleanup_pc = "idle"
  /\ cleanup_args = NoCleanupArgs
  /\ tree = NoTree
  /\ old_files = << >>
  /\ confirm = << >>
  /\ success = 0
  /\ errors = 0
  /\ cleanup_audit = << >>
  /\ cleanup_ret = -1

ScriptsIdle == ContainerIdle /\ CleanupIdle

Init ==
  /\ ScriptsIdle
  /\ cmd \in {"encrypt", "decrypt"}
  /\ mode \in (IF cmd = "encrypt" THEN {"encrypt", "anonymize"} ELSE {"none"})
  \* the encrypt command runs with the key K1: the documents hold markers of
  \* K1 and of K2, so both a marker of the same key and one of another key occur
  /\ args_key \in (IF mode = "anonymize" THEN {"none"}
                   ELSE IF mode = "encrypt" THEN {"K1"} ELSE Keys)
  \* hash() is called in anonymize mode only
  /\ print_key = FALSE
  /\ input_ext = ".md"
  /\ hashseed \in (IF mode = "anonymize" THEN HashSeeds ELSE {0})
  /\ doc \in (IF cmd = "encrypt" THEN EncryptDocs ELSE DecryptDocs)
  /\ pc = "args"
  /\ outdir = FALSE
  /\ work_md = NoFile
  /\ key_b64 = "none"
  /\ md_text = << >>
  /\ matches = << >>
  /\ matches_sorted = << >>
  /\ buf = << >>
  /\ substitutions = << >>
  /\ out_md = NoFile
  /\ report = NoFile
  /\ key_bytes = "none"
  /\ dec_md_text = << >>
  /\ encrypted_markers = 0
  /\ out_decrypted = NoFile
  /\ audit = << >>
  /\ stdout = << >>
  /\ error = "none"
  /\ exit_code = -1
  /\ offset = 0
  /\ line_col = NoLineCol

\* One entry of the report's "matches" list.
report_entry(m) ==
  [start       |-> m.start,
   end         |-> m.end,
   entity_type |-> m.entity_type,
   score       |-> m.score,
   text        |-> m.text,
   line        |-> m.line,
   column      |-> m.column]

\* A report that lists the matches in the order they were spliced in.
write_report_sorted(md_path, ms) ==
  File([file    |-> md_path,
        total   |-> Len(ms),
        matches |-> [i \in 1..Len(ms) |-> report_entry(sorted_reverse(ms)[i])]])

\* write_report(md_path, matches, report_path): the file written; md_path is
\* the base name of the output document.
write_report(md_path, ms) ==
  File([file    |-> md_path,
        total   |-> Len(ms),
        matches |-> [i \in 1..Len(ms) |-> report_entry(ms[i])]])

\* entity_counts of main(): the number of matches of each entity type.
entity_counts(ms) ==
  [t \in {ms[i].entity_type : i \in 1..Len(ms)} |->
     Cardinality({i \in 1..Len(ms) : ms[i].entity_type = t})]

\* main(), encrypt command, up to the call of apply_*_replacements: the key,
\* the text read from the input, the matches of analyze_pii.
EncryptAnalyze ==
  /\ cmd = "encrypt"
  /\ pc = "args"
  /\ \E results \in DetectorResults(doc) :
       matches' = analyze_pii(Text(doc), results)
  /\ md_text' = Text(doc)
  /\ IF mode = "encrypt"
     THEN /\ KeyDecodes(args_key)
          /\ \E key \in (IF args_key = "none" THEN generate_key
                         ELSE {ensure_fernet_key(args_key)}) :
               key_b64' = key
     ELSE key_b64' = "none"
  /\ outdir' = TRUE
  /\ work_md' = convert_pdf_if_needed(input_ext, Text(doc))
  /\ pc' = "analyzed"
  /\ UNCHANGED << cmd, mode, args_key, print_key, input_ext, hashseed, doc,
                  matches_sorted, buf, substitutions, out_md, report, key_bytes,
                  dec_md_text, encrypted_markers, out_decrypted, audit, stdout,
                  error, exit_code, linevars, scriptvars >>

\* apply_encryption_replacements / apply_anonymization_replacements: the sort
\* and the initial buffer.
ApplySort ==
  /\ pc = "analyzed"
  /\ matches_sorted' = sorted_reverse(matches)
  /\ buf' = md_text
  /\ pc' = "splicing"
  /\ UNCHANGED << cmd, mode, args_key, print_key, input_ext, hashseed, doc,
                  outdir, work_md, key_b64, md_text, matches, substitutions,
                  out_md, report, key_bytes, dec_md_text, encrypted_markers,
                  out_decrypted, audit, stdout, error, exit_code, linevars, scriptvars >>

\* One turn of the loop of apply_*_replacements: the next match is spliced.
ApplySplice ==
  /\ pc = "splicing"
  /\ matches_sorted # << >>
  /\ mode = "encrypt" => FernetKey(key_b64)
  /\ LET m == Head(matches_sorted)
         replacement ==
           IF mode = "encrypt"
           THEN encryption_replacement(m, key_b64, Nonce(Len(substitutions) + 1))
           ELSE anonymization_replacement(m, hashseed)
     IN  /\ buf' = splice(buf, m, replacement)
         /\ substitutions' = Append(substitutions, << m, replacement >>)
  /\ matches_sorted' = Tail(matches_sorted)
  /\ UNCHANGED << cmd, mode, args_key, print_key, input_ext, hashseed, doc, pc,
                  outdir, work_md, key_b64, md_text, matches, out_md, report,
                  key_bytes, dec_md_text, encrypted_markers, out_decrypted,
                  audit, stdout, error, exit_code, linevars, scriptvars >>

\* The names of the files of a run, as the audit events carry them
\* (os.path.basename): the input is <base><ext>, the output of the encrypt
\* command <base>.md, its report <base>.md.pii.json, the output of the decrypt
\* command <base>.decrypted.md.
InputName(ext) == << "base", ext >>

OutputName == << "base", ".md" >>

ReportName == << "base", ".md", ".pii.json" >>

DecryptedName == << "base", ".decrypted.md" >>

\* An event that also records the key of the run.
log_audit_event_with_key(operation, file_path, kwargs) ==
  [operation |-> operation, file |-> file_path, user |-> "USER",
   key |-> IF operation = << "pii", "decrypt" >> THEN key_bytes' ELSE key_b64]
    @@ kwargs

\* log_audit_event(operation, file_path, **kwargs): the event logged, less
\* its timestamp; kwargs are the fields the caller adds.
log_audit_event(operation, file_path, kwargs) ==
  [operation |-> operation, file |-> file_path, user |-> "USER"] @@ kwargs

\* What the encrypt command prints at its end: the two paths and, in encrypt
\* mode with no --key and with --print-key, the generated key.
encrypt_prints(args_mode, key_given, key_printed, key) ==
  << << "Written", OutputName >>, << "PII report", ReportName >> >>
    \o (IF args_mode = "encrypt" /\ key_given = "none" /\ key_printed
        THEN << << "Generated key", key >> >> ELSE << >>)

\* A command that writes its buffer whether or not matches are left to splice.
EncryptWriteEarly ==
  /\ pc = "splicing"
  /\ out_md' = File(buf)
  /\ report' = write_report(OutputName, matches)
  /\ audit' = Append(audit,
                log_audit_event(<< "pii", mode >>, InputName(input_ext),
                  [mode          |-> mode,
                   pii_total     |-> Len(matches),
                   entity_counts |-> entity_counts(matches),
                   output_file   |-> OutputName,
                   report_file   |-> ReportName]))
  /\ stdout' = stdout \o encrypt_prints(mode, args_key, print_key, key_b64)
  /\ exit_code' = 0
  /\ pc' = "done"
  /\ UNCHANGED << cmd, mode, args_key, print_key, input_ext, hashseed, doc,
                  outdir, work_md, key_b64, md_text, matches, matches_sorted,
                  buf, substitutions, key_bytes, dec_md_text, encrypted_markers,
                  out_decrypted, error, linevars, scriptvars >>

\* main(), encrypt command, after the rewrite: the output document and the
\* report are written, the audit event logged, the paths and the key
\* printed, and main() returns 0.
EncryptWrite ==
  /\ pc = "splicing"
  /\ matches_sorted = << >>
  /\ out_md' = File(buf)
  /\ report' = write_report(OutputName, matches)
  /\ audit' = Append(audit,
                log_audit_event(<< "pii", mode >>, InputName(input_ext),
                  [mode          |-> mode,
                   pii_total     |-> Len(matches),
                   entity_counts |-> entity_counts(matches),
                   output_file   |-> OutputName,
                   report_file   |-> ReportName]))
  /\ stdout' = stdout \o encrypt_prints(mode, args_key, print_key, key_b64)
  /\ exit_code' = 0
  /\ pc' = "done"
  /\ UNCHANGED << cmd, mode, args_key, print_key, input_ext, hashseed, doc,
                  outdir, work_md, key_b64, md_text, matches, matches_sorted,
                  buf, substitutions, key_bytes, dec_md_text, encrypted_markers,
                  out_decrypted, error, linevars, scriptvars >>

\* main(), decrypt command, on the text input with the key key: the markers
\* are counted, decrypt_markers runs, the output is written, the audit event
\* logged, and main() returns 0.
DecryptCommand(input, input_name, key) ==
  /\ KeyDecodes(key)
  /\ key_bytes' = ensure_fernet_key(key)
  /\ dec_md_text' = input
  /\ encrypted_markers' = Len(findall(input, 0))
  /\ out_decrypted' = File(decrypt_markers(input, ensure_fernet_key(key)))
  /\ audit' = Append(audit,
                log_audit_event(<< "pii", "decrypt" >>, input_name,
                  [markers_decrypted |-> Len(findall(input, 0)),
                   output_file       |-> DecryptedName]))
  /\ stdout' = Append(stdout, << "Written", DecryptedName >>)
  /\ error' = "none"
  /\ exit_code' = 0
  /\ pc' = "done"

\* The decrypt command on the input document.
Decrypt ==
  /\ cmd = "decrypt"
  /\ pc = "args"
  /\ DecryptCommand(Text(doc), InputName(input_ext), args_key)
  /\ UNCHANGED << cmd, mode, args_key, print_key, input_ext, hashseed, doc,
                  outdir, work_md, key_b64, md_text, matches, matches_sorted,
                  buf, substitutions, out_md, report, linevars, scriptvars >>

\* The decrypt command on the document an encrypt run wrote, with any key.
DecryptEncrypted ==
  /\ cmd = "encrypt"
  /\ mode = "encrypt"
  /\ pc = "done"
  /\ \E key \in Keys :
       /\ args_key' = key
       /\ DecryptCommand(out_md.content, OutputName, key)
  /\ cmd' = "decrypt"
  /\ UNCHANGED << mode, print_key, input_ext, hashseed, doc, outdir, work_md,
                  key_b64, md_text, matches, matches_sorted, buf, substitutions,
                  out_md, report, linevars, scriptvars >>

Next ==
  \/ EncryptAnalyze
  \/ ApplySort
  \/ ApplySplice
  \/ EncryptWrite
  \/ Decrypt
  \/ DecryptEncrypted

Spec == Init /\ [][Next]_vars

\* ------------------------------------------- the commands with their failures
\* The runs of Spec have a readable input, a well-formed key, a detector
\* that answers and a report that can be written.  MainSpec adds the other
\* runs of main(): no input file, any value of --key or none, --print-key, a
\* PDF input, a detector that fails, a report that cannot be written.  The
\* commands are run with their default paths (no --output, --outdir or
\* --report): the encrypt command writes <base>.md and <base>.md.pii.json in
\* the directory <base>/ it makes, the decrypt command <base>.decrypted.md
\* beside its input.

\* What the state of a run is apart from the files it writes and the result.
argvars == << cmd, mode, args_key, print_key, input_ext, hashseed, doc >>

rewritevars == << matches, matches_sorted, buf, substitutions >>

decryptvars == << key_bytes, dec_md_text, encrypted_markers, out_decrypted >>

\* The documents of these runs: the empty text and texts of one letter for
\* the encrypt command; up to two parts, text or markers, for decrypt.
MainEncryptDocs == {<< >>} \cup {<< Letter(i) >> : i \in 1..MaxParts}

\* A text of two parts that holds the same letter twice, for the runs of
\* anonymize mode and of encrypt mode with a Fernet key given: matches that
\* do not start at offset 0 have a text, and two matches can have the same.
RepeatDoc == << Letter(1), Letter(1) >>

MainDecryptDocs ==
  UNION {[1..n -> {Letter(1), OldMarkerK1, OldMarkerK2}] : n \in 0..MaxParts}

MainInit ==
  /\ ScriptsIdle
  /\ cmd \in {"encrypt", "decrypt"}
  /\ mode \in (IF cmd = "encrypt" THEN {"encrypt", "anonymize"} ELSE {"none"})
  /\ args_key \in (IF mode = "anonymize" THEN {"none"}
                   ELSE IF mode = "encrypt" THEN {"none", "K1", "short", "bad"}
                   ELSE GivenKeys)
  \* --print-key is looked at only when no key is given
  /\ print_key \in (IF mode = "encrypt" /\ args_key = "none" THEN BOOLEAN
                    ELSE {FALSE})
  /\ input_ext \in (IF cmd = "encrypt" THEN {".md", ".pdf"} ELSE {".md"})
  /\ hashseed \in (IF mode = "anonymize" THEN HashSeeds ELSE {0})
  /\ doc \in (IF cmd = "decrypt" THEN MainDecryptDocs
               ELSE IF mode = "anonymize" \/ FernetKey(args_key)
                 THEN MainEncryptDocs \cup {RepeatDoc}
               ELSE MainEncryptDocs)
  /\ pc = "args"
  /\ outdir = FALSE
  /\ work_md = NoFile
  /\ key_b64 = "none"
  /\ md_text = << >>
  /\ matches = << >>
  /\ matches_sorted = << >>
  /\ buf = << >>
  /\ substitutions = << >>
  /\ out_md = NoFile
  /\ report = NoFile
  /\ key_bytes = "none"
  /\ dec_md_text = << >>
  /\ encrypted_markers = 0
  /\ out_decrypted = NoFile
  /\ audit = << >>
  /\ stdout = << >>
  /\ error = "none"
  /\ exit_code = -1
  /\ offset = 0
  /\ line_col = NoLineCol

\* main(), either command: args.input is not a file; main() returns 1.
InputNotFound ==
  /\ pc = "args"
  /\ error' = "File not found"
  /\ exit_code' = 1
  /\ pc' = "failed"
  /\ UNCHANGED << argvars, outdir, work_md, key_b64, md_text, rewritevars,
                  out_md, report, decryptvars, audit, stdout, linevars, scriptvars >>

\* main(), encrypt command, encrypt mode: ensure_fernet_key raises ValueError
\* on a key that does not decode, after the output directory was made and a
\* PDF input converted; nothing catches it.
EncryptInvalidKey ==
  /\ cmd = "encrypt"
  /\ pc = "args"
  /\ mode = "encrypt"
  /\ ~KeyDecodes(args_key)
  /\ outdir' = TRUE
  /\ work_md' = convert_pdf_if_needed(input_ext, Text(doc))
  /\ error' = "ValueError"
  /\ exit_code' = 1
  /\ pc' = "failed"
  /\ UNCHANGED << argvars, key_b64, md_text, rewritevars, out_md, report,
                  decryptvars, audit, stdout, linevars, scriptvars >>

\* The exceptions of a detector that cannot run: build_analyzer found no
\* usable model (RuntimeError), or the analyze call of the engine failed.
DetectorErrors == {"RuntimeError", "AnalyzeError"}

\* A command that catches the exception and goes on with no match.
analyze_pii_swallows(exc) ==
  [pc |-> "analyzed", exit_code |-> -1, error |-> exc]

\* How main() goes on when analyze_pii raises exc: neither analyze_pii nor
\* main() catches it, the process ends with status 1.
analyze_pii_raises(exc) ==
  [pc |-> "failed", exit_code |-> 1, error |-> exc]

\* main(), encrypt command: the output directory is made, a PDF converted,
\* the key prepared and the text read; then analyze_pii raises.
EncryptDetectorFails ==
  /\ cmd = "encrypt"
  /\ pc = "args"
  /\ md_text' = Text(doc)
  /\ IF mode = "encrypt"
     THEN /\ KeyDecodes(args_key)
          /\ \E key \in (IF args_key = "none" THEN generate_key
                         ELSE {ensure_fernet_key(args_key)}) :
               key_b64' = key
     ELSE key_b64' = "none"
  /\ outdir' = TRUE
  /\ work_md' = convert_pdf_if_needed(input_ext, Text(doc))
  /\ \E exc \in DetectorErrors :
       /\ pc' = analyze_pii_raises(exc).pc
       /\ exit_code' = analyze_pii_raises(exc).exit_code
       /\ error' = analyze_pii_raises(exc).error
  /\ UNCHANGED << argvars, rewritevars, out_md, report, decryptvars, audit,
                  stdout, linevars, scriptvars >>

\* apply_encryption_replacements: encrypt_text raises on the next match,
\* because Fernet rejects the key; nothing catches it.
ApplyCipherFails ==
  /\ pc = "splicing"
  /\ matches_sorted # << >>
  /\ mode = "encrypt"
  /\ ~FernetKey(key_b64)
  /\ error' = "ValueError"
  /\ exit_code' = 1
  /\ pc' = "failed"
  /\ UNCHANGED << argvars, outdir, work_md, key_b64, md_text, rewritevars,
                  out_md, report, decryptvars, audit, stdout, linevars, scriptvars >>

\* main(), encrypt command, after the rewrite: the output document is
\* written, then write_report raises (the report file cannot be opened or
\* written); nothing catches it.
EncryptReportFails ==
  /\ pc = "splicing"
  /\ matches_sorted = << >>
  /\ out_md' = File(buf)
  /\ error' = "OSError"
  /\ exit_code' = 1
  /\ pc' = "failed"
  /\ UNCHANGED << argvars, outdir, work_md, key_b64, md_text, rewritevars,
                  report, decryptvars, audit, stdout, linevars, scriptvars >>

\* main(), decrypt command: ensure_fernet_key raises on a key that does not
\* decode; the message is printed on standard error and main() returns 1.
DecryptInvalidKey ==
  /\ cmd = "decrypt"
  /\ pc = "args"
  /\ ~KeyDecodes(args_key)
  /\ error' = "Invalid key"
  /\ exit_code' = 1
  /\ pc' = "failed"
  /\ UNCHANGED << argvars, outdir, work_md, key_b64, md_text, rewritevars,
                  out_md, report, decryptvars, audit, stdout, linevars, scriptvars >>

MainNext ==
  \/ Next
  \/ InputNotFound
  \/ EncryptInvalidKey
  \/ EncryptDetectorFails
  \/ ApplyCipherFails
  \/ EncryptReportFails
  \/ DecryptInvalidKey

MainSpec == MainInit /\ [][MainNext]_vars

\* ------------------------------------------------------ offset resolution
\* offset_to_line_col(offset, calculate_line_col_map(text)) on its own, for
\* every text of letters and newlines up to MaxChars characters and every
\* offset from 0 to the end of the text.
LineTexts == UNION {[1..n -> {"a", "b", "\n"}] : n \in 0..MaxChars}

LineInit ==
  /\ ScriptsIdle
  /\ md_text \in LineTexts
  /\ offset \in 0..Len(md_text)
  /\ line_col = NoLineCol
  /\ pc = "offset"
  /\ cmd = "encrypt"
  /\ mode = "encrypt"
  /\ args_key = "K1"
  /\ print_key = FALSE
  /\ input_ext = ".md"
  /\ hashseed = 0
  /\ doc = << >>
  /\ outdir = FALSE
  /\ work_md = NoFile
  /\ key_b64 = "none"
  /\ matches = << >>
  /\ matches_sorted = << >>
  /\ buf = << >>
  /\ substitutions = << >>
  /\ out_md = NoFile
  /\ report = NoFile
  /\ key_bytes = "none"
  /\ dec_md_text = << >>
  /\ encrypted_markers = 0
  /\ out_decrypted = NoFile
  /\ audit = << >>
  /\ stdout = << >>
  /\ error = "none"
  /\ exit_code = -1

\* The call offset_to_line_col(offset, calculate_line_col_map(md_text)).
ResolveOffset ==
  /\ pc = "offset"
  /\ line_col' = offset_to_line_col(offset, calculate_line_col_map(md_text))
  /\ pc' = "resolved"
  /\ UNCHANGED << argvars, outdir, work_md, key_b64, md_text, rewritevars,
                  out_md, report, decryptvars, audit, stdout, error, exit_code,
                  offset, scriptvars >>

LineNext == ResolveOffset

LineSpec == LineInit /\ [][LineNext]_vars

\* ---------------------------------------------------------------------------
\* process_in_container (docker_process.py): one call, from its entry to its
\* return, with the audit log it appends to.
\* ---------------------------------------------------------------------------

\* No command of pii_encrypt_md.py runs.
CommandIdle ==
  /\ cmd = "encrypt"
  /\ mode = "encrypt"
  /\ args_key = "K1"
  /\ print_key = FALSE
  /\ input_ext = ".md"
  /\ hashseed = 0
  /\ doc = << >>
  /\ pc = "idle"
  /\ outdir = FALSE
  /\ work_md = NoFile
  /\ key_b64 = "none"
  /\ md_text = << >>
  /\ matches = << >>
  /\ matches_sorted = << >>
  /\ buf = << >>
  /\ substitutions = << >>
  /\ out_md = NoFile
  /\ report = NoFile
  /\ key_bytes = "none"
  /\ dec_md_text = << >>
  /\ encrypted_markers = 0
  /\ out_decrypted = NoFile
  /\ audit = << >>
  /\ stdout = << >>
  /\ error = "none"
  /\ exit_code = -1
  /\ offset = 0
  /\ line_col = NoLineCol

commandvars ==
  << argvars, pc, outdir, work_md, key_b64, md_text, rewritevars, out_md,
     report, decryptvars, audit, stdout, error, exit_code, linevars >>

ContainerInputs == {"letter.md", "scan.pdf"}

ContainerInit ==
  /\ CommandIdle
  /\ CleanupIdle
  /\ container_pc = "entry"
  /\ container_args \in [input_file : ContainerInputs,
                         mode : {"encrypt", "anonymize"},
                         entities : {"none", "EMAIL_ADDRESS"}]
  /\ output_dir = FALSE
  /\ container_audit = << >>
  /\ container_stderr = << >>
  /\ container_ret = -1

\* The event log_container_event builds from its arguments (the timestamp
\* and the user are left out of the record).
container_event(operation, kwargs) == [operation |-> operation] @@ kwargs

\* log_container_event(log_file, operation, **kwargs): the log after the
\* call.  The write appends one line, or raises OSError (written = FALSE),
\* which is caught: then the log is as it was.
log_container_event(log, operation, kwargs, written) ==
  IF written THEN Append(log, container_event(operation, kwargs)) ELSE log

\* What log_container_event prints on standard error.
log_container_warning(err, written) ==
  IF written THEN err ELSE Append(err, "Warning: Could not write to audit log")

\* The three early returns of process_in_container, before any event is
\* logged: docker-py cannot be imported, the input is not a file, the Docker
\* daemon cannot be reached (then the output directory was made).
PreflightErrors ==
  {"docker-py is not installed", "File not found", "Could not connect to Docker"}

ContainerPreflightFails ==
  /\ container_pc = "entry"
  /\ \E e \in PreflightErrors :
       /\ output_dir' = (e = "Could not connect to Docker")
       /\ container_stderr' = Append(container_stderr, e)
  /\ container_ret' = 1
  /\ container_pc' = "returned"
  /\ UNCHANGED << commandvars, cleanupvars, container_args, container_audit >>

\* process_in_container up to the try block: the output directory is made,
\* the client connects, and "container_start" is logged.
ContainerStart ==
  /\ container_pc = "entry"
  /\ output_dir' = TRUE
  /\ \E written \in BOOLEAN :
       /\ container_audit' =
            log_container_event(container_audit, "container_start",
              [input_file |-> container_args.input_file,
               mode |-> container_args.mode], written)
       /\ container_stderr' = log_container_warning(container_stderr, written)
  /\ container_pc' = "running"
  /\ UNCHANGED << commandvars, cleanupvars, container_args, container_ret >>

\* The try block runs to its end: the container ran, its output is printed,
\* "container_complete" is logged, the function returns 0.
ContainerCompletes ==
  /\ container_pc = "running"
  /\ \E written \in BOOLEAN :
       /\ container_audit' =
            log_container_event(container_audit, "container_complete",
              [input_file |-> container_args.input_file,
               mode |-> container_args.mode, status |-> "success"], written)
       /\ container_stderr' = log_container_warning(container_stderr, written)
  /\ container_ret' = 0
  /\ container_pc' = "returned"
  /\ UNCHANGED << commandvars, cleanupvars, container_args, output_dir >>

\* The branch of one except clause that logs "container_error": the message
\* is printed, the event is logged, the function returns 1.
container_error_branch(log, err, message) ==
  \E written \in BOOLEAN :
    /\ container_audit' =
         log_container_event(log, "container_error",
           [input_file |-> container_args.input_file, error |-> message],
           written)
    /\ container_stderr' = log_container_warning(Append(err, message), written)

\* client.containers.run raises docker.errors.ContainerError.
ContainerErrorRaised ==
  /\ container_pc = "running"
  /\ container_error_branch(container_audit, container_stderr,
                            "Container execution failed")
  /\ container_ret' = 1
  /\ container_pc' = "returned"
  /\ UNCHANGED << commandvars, cleanupvars, container_args, output_dir >>

\* client.containers.run raises docker.errors.ImageNotFound: three lines on
\* standard error, no event, the function returns 1.
ContainerImageNotFound ==
  /\ container_pc = "running"
  /\ container_stderr' =
       Append(container_stderr, "Docker image 'pii-processor:latest' not found")
  /\ container_ret' = 1
  /\ container_pc' = "returned"
  /\ UNCHANGED << commandvars, cleanupvars, container_args, output_dir,
                  container_audit >>

\* client.containers.run raises any other exception.
ContainerOtherException ==
  /\ container_pc = "running"
  /\ container_error_branch(container_audit, container_stderr, "APIError")
  /\ container_ret' = 1
  /\ container_pc' = "returned"
  /\ UNCHANGED << commandvars, cleanupvars, container_args, output_dir >>

\* A statement of the try block after the run raises: the decoding or the
\* print of the output (before "container_complete" is logged), or the print
\* of the closing line (after it was logged).  Both reach "except Exception".
ContainerPrintFails ==
  /\ container_pc = "running"
  /\ \E at \in {"output", "closing line"} :
       IF at = "output"
       THEN container_error_branch(container_audit, container_stderr,
                                   "UnicodeError")
       ELSE \E written \in BOOLEAN :
              container_error_branch(
                log_container_event(container_audit, "container_complete",
                  [input_file |-> container_args.input_file,
                   mode |-> container_args.mode, status |-> "success"],
                  written),
                log_container_warning(container_stderr, written),
                "UnicodeEncodeError")
  /\ container_ret' = 1
  /\ container_pc' = "returned"
  /\ UNCHANGED << commandvars, cleanupvars, container_args, output_dir >>

ContainerNext ==
  \/ ContainerPreflightFails
  \/ ContainerStart
  \/ ContainerCompletes
  \/ ContainerErrorRaised
  \/ ContainerImageNotFound
  \/ ContainerOtherException
  \/ ContainerPrintFails

ContainerSpec == ContainerInit /\ [][ContainerNext]_vars

\* ---------------------------------------------------------------------------
\* The cleanup command (cleanup.py): one run of main(), with the directory it
\* walks.  A file is [name, dir, mtime]: its name (a sequence of characters),
\* the directory that holds it ("." for the top), its modification time.
\* ---------------------------------------------------------------------------

SecondsPerDay == 86400

\* time.time() at the scan.
Now == 1000000

Range(seq) == {seq[i] : i \in 1..Len(seq)}

\* filename.endswith(p)
endswith(filename, p) ==
  /\ Len(p) <= Len(filename)
  /\ SubSeq(filename, Len(filename) - Len(p) + 1, Len(filename)) = p

\* p in filename
contains(filename, p) ==
  \E i \in 1..(Len(filename) - Len(p) + 1) :
    SubSeq(filename, i, i + Len(p) - 1) = p

\* The test of find_old_files on the name: no pattern, or one that the name
\* ends with or holds.
pattern_matches(filename, patterns) ==
  \/ patterns = << >>
  \/ \E k \in 1..Len(patterns) :
       endswith(filename, patterns[k]) \/ contains(filename, patterns[k])

\* cutoff = now - (max_age_days * 86400)
cutoff(max_age_days) == Now - (max_age_days * SecondsPerDay)

\* find_old_files_of_any_age: a find_old_files that lists the files of any
\* modification time.
find_old_files_of_any_age(directory, max_age_days, patterns, unreadable) ==
  SelectSeq(directory.files,
            LAMBDA f : /\ pattern_matches(f.name, patterns)
                       /\ f \notin unreadable)

\* find_old_files(directory, max_age_days, patterns): the files of the walk,
\* in its order, whose name passes the test and whose modification time is
\* before the cutoff; a file whose os.path.getmtime raises OSError
\* (unreadable) is skipped.
find_old_files(directory, max_age_days, patterns, unreadable) ==
  SelectSeq(directory.files,
            LAMBDA f : /\ pattern_matches(f.name, patterns)
                       /\ f \notin unreadable
                       /\ f.mtime < cutoff(max_age_days))

\* delete_files(files, dry_run): the files os.remove removed and the counts
\* returned; failing are the files whose os.remove raises OSError.
delete_files(files, dry_run, failing) ==
  IF dry_run
  THEN [deleted |-> {}, success |-> Len(files), errors |-> 0]
  ELSE [deleted |-> Range(files) \ failing,
        success |-> Cardinality(Range(files) \ failing),
        errors |-> Cardinality(Range(files) \cap failing)]

\* The directories of the walk that hold no file.
EmptyDirs(directory) ==
  {d \in directory.dirs : \A i \in 1..Len(directory.files) :
                            directory.files[i].dir # d}

\* cleanup_empty_dirs(directory, dry_run): the directories os.rmdir removed;
\* failing are those whose os.listdir or os.rmdir raises OSError.
cleanup_empty_dirs(directory, dry_run, failing) ==
  IF dry_run THEN {} ELSE EmptyDirs(directory) \ failing

\* str.lower() on one character.
lower_char(c) == IF c = "Y" THEN "y" ELSE IF c = "N" THEN "n" ELSE c

lower(text) == [i \in 1..Len(text) |-> lower_char(text[i])]

RECURSIVE lstrip(_)
lstrip(text) ==
  IF text # << >> /\ Head(text) = " " THEN lstrip(Tail(text)) ELSE text

RECURSIVE rstrip(_)
rstrip(text) ==
  IF text # << >> /\ text[Len(text)] = " "
  THEN rstrip(SubSeq(text, 1, Len(text) - 1))
  ELSE text

\* str.strip()
strip(text) == rstrip(lstrip(text))

\* The event log_cleanup_event builds (the timestamp and the user are left
\* out of the record).
cleanup_event(directory, retention_days, files_deleted, errs, dry_run) ==
  [operation |-> "cleanup", directory |-> directory,
   retention_days |-> retention_days, files_deleted |-> files_deleted,
   errors |-> errs, dry_run |-> dry_run]

\* log_cleanup_event(...): the log after the call; the write appends one
\* line, or raises OSError (written = FALSE), which is caught.
log_cleanup_event(log, directory, days, deleted, errs, dry_run, written) ==
  IF written
  THEN Append(log, cleanup_event(directory, days, deleted, errs, dry_run))
  ELSE log

OldTime == Now - (8 * SecondsPerDay)

EdgeTime == Now - (7 * SecondsPerDay)

NewTime == Now - 1

FileAt(name, dir, mtime) == [name |-> name, dir |-> dir, mtime |-> mtime]

\* The directories the command is run on.
Trees ==
  { [files |-> << FileAt(<< "a", ".", "m" >>, ".", OldTime),
                  FileAt(<< "b", ".", "j" >>, ".", NewTime),
                  FileAt(<< "a", ".", "m", "~" >>, "sub", OldTime) >>,
     dirs |-> {"sub", "empty"}],
    [files |-> << FileAt(<< "a", ".", "m" >>, "sub", EdgeTime),
                  FileAt(<< "c" >>, ".", OldTime) >>,
     dirs |-> {"sub"}],
    [files |-> << >>, dirs |-> {"empty"}] }

PatternLists ==
  { << >>, << << ".", "m" >> >>, << << "c" >>, << ".", "j" >> >> }

Answers ==
  { << "y" >>, << "Y" >>, << " ", "y", " " >>, << "n" >>, << >>,
    << "y", "e", "s" >> }

CleanupInit ==
  /\ CommandIdle
  /\ ContainerIdle
  /\ cleanup_pc = "args"
  /\ cleanup_args \in [directory : {"data", "missing"},
                       retention_days : {0, 7},
                       patterns : PatternLists,
                       dry_run : BOOLEAN,
                       remove_empty_dirs : BOOLEAN]
  /\ IF cleanup_args.directory = "data" THEN tree \in Trees ELSE tree = NoTree
  /\ old_files = << >>
  /\ confirm = << >>
  /\ success = 0
  /\ errors = 0
  /\ cleanup_audit = << >>
  /\ cleanup_ret = -1

\* main(): args.directory is no directory.
CleanupDirectoryMissing ==
  /\ cleanup_pc = "args"
  /\ cleanup_args.directory = "missing"
  /\ cleanup_ret' = 1
  /\ cleanup_pc' = "returned"
  /\ UNCHANGED << commandvars, containervars, cleanup_args, tree, old_files,
                  confirm, success, errors, cleanup_audit >>

\* main() up to the confirmation: the scan; with nothing found the event is
\* logged and main() returns 0; in a dry run no question is asked.
CleanupScan ==
  /\ cleanup_pc = "args"
  /\ cleanup_args.directory # "missing"
  /\ \E unreadable \in SUBSET Range(tree.files) :
       old_files' = find_old_files(tree, cleanup_args.retention_days,
                                   cleanup_args.patterns, unreadable)
  /\ IF old_files' = << >>
     THEN /\ \E written \in BOOLEAN :
               cleanup_audit' =
                 log_cleanup_event(cleanup_audit, cleanup_args.directory,
                                   cleanup_args.retention_days, 0, 0,
                                   cleanup_args.dry_run, written)
          /\ cleanup_ret' = 0
          /\ cleanup_pc' = "returned"
     ELSE /\ cleanup_pc' = IF cleanup_args.dry_run THEN "deleting" ELSE "found"
          /\ UNCHANGED << cleanup_audit, cleanup_ret >>
  /\ UNCHANGED << commandvars, containervars, cleanup_args, tree, confirm,
                  success, errors >>

\* main(): the answer to "Proceed with deletion? [y/N]: ".
CleanupConfirm ==
  /\ cleanup_pc = "found"
  /\ \E answer \in Answers : confirm' = answer
  /\ IF lower(strip(confirm')) # << "y" >>
     THEN /\ cleanup_ret' = 0
          /\ cleanup_pc' = "returned"
     ELSE /\ cleanup_pc' = "deleting"
          /\ UNCHANGED cleanup_ret
  /\ UNCHANGED << commandvars, containervars, cleanup_args, tree, old_files,
                  success, errors, cleanup_audit >>

\* main(): delete_files(old_files, args.dry_run).
CleanupDelete ==
  /\ cleanup_pc = "deleting"
  /\ \E failing \in SUBSET Range(old_files) :
       LET done == delete_files(old_files, cleanup_args.dry_run, failing)
       IN  /\ tree' = [tree EXCEPT !.files =
                         SelectSeq(@, LAMBDA f : f \notin done.deleted)]
           /\ success' = done.success
           /\ errors' = done.errors
  /\ cleanup_pc' = "deleted"
  /\ UNCHANGED << commandvars, containervars, cleanup_args, old_files,
                  confirm, cleanup_audit, cleanup_ret >>

\* main() after delete_files: the empty directories, the summary, the audit
\* event, the exit status.
CleanupFinish ==
  /\ cleanup_pc = "deleted"
  /\ IF cleanup_args.remove_empty_dirs /\ ~cleanup_args.dry_run
     THEN \E failing \in SUBSET EmptyDirs(tree) :
            tree' = [tree EXCEPT !.dirs =
                       @ \ cleanup_empty_dirs(tree, cleanup_args.dry_run,
                                              failing)]
     ELSE UNCHANGED tree
  /\ \E written \in BOOLEAN :
       cleanup_audit' =
         log_cleanup_event(cleanup_audit, cleanup_args.directory,
                           cleanup_args.retention_days, success, errors,
                           cleanup_args.dry_run, written)
  /\ cleanup_ret' = IF errors = 0 THEN 0 ELSE 1
  /\ cleanup_pc' = "returned"
  /\ UNCHANGED << commandvars, containervars, cleanup_args, old_files,
                  confirm, success, errors >>

CleanupNext ==
  \/ CleanupDirectoryMissing
  \/ CleanupScan
  \/ CleanupConfirm
  \/ CleanupDelete
  \/ CleanupFinish

CleanupSpec == CleanupInit /\ [][CleanupNext]_vars

\* =================================================================== claims
\* ------------------------------------------------- vocabulary of the claims
\* The data model's range invariant: 0 <= start <= end <= length(text).
ValidRange(m, text) == 0 <= m.start /\ m.start <= m.end /\ m.end <= Len(text)

\* Two half-open intervals intersect; exact duplicates count as intersecting.
Overlap(a, b) ==
  \/ a.start < b.end /\ b.start < a.end
  \/ a.start = b.start /\ a.end = b.end

NonOverlapping(ms) ==
  \A i, j \in 1..Len(ms) : i < j => ~Overlap(ms[i], ms[j])

\* A valid match set over text: every match in range, its text the slice it
\* names, no two matches overlapping.
ValidMatchSet(ms, text) ==
  /\ \A i \in 1..Len(ms) :
       ValidRange(ms[i], text) /\ ms[i].text = PySlice(text, ms[i].start, ms[i].end)
  /\ NonOverlapping(ms)

\* No zero-length match stands, in list order, before another match that
\* starts at the same offset.
NoEmptyMatchFirst(ms) ==
  \A i, j \in 1..Len(ms) :
    i < j /\ ms[i].start = ms[j].start => ms[i].end > ms[i].start

\* The marker grammar, stated on a whole string:
\*   "{{ENC:" entity ":" token padding "}}"
\* with entity in [A-Z_]+, token in [A-Za-z0-9_-]+ and padding in =*.
IsMarker(s) ==
  /\ Len(s) >= 11
  /\ SubSeq(s, 1, 6) = << "{", "{", "E", "N", "C", ":" >>
  /\ SubSeq(s, Len(s) - 1, Len(s)) = << "}", "}" >>
  /\ \E c \in 8..(Len(s) - 3) :
       /\ s[c] = ":"
       /\ \A i \in 7..(c - 1) : s[i] \in EntityClass
       /\ \E t \in (c + 1)..(Len(s) - 2) :
            /\ \A i \in (c + 1)..t : s[i] \in TokenClass
            /\ \A i \in (t + 1)..(Len(s) - 2) : s[i] = "="

\* The offsets (start, end) of the substrings of text that are markers.
MarkerSpans(text) ==
  {p \in (0..Len(text)) \X (0..Len(text)) :
     /\ p[1] + 11 <= p[2]
     /\ text[p[1] + 1] = "{"
     /\ text[p[2]] = "}"
     /\ IsMarker(SubSeq(text, p[1] + 1, p[2]))}

\* The encrypt command has run in encrypt mode and the decrypt command has
\* then run on its output with the same key.
RoundTripDone ==
  /\ cmd = "decrypt"
  /\ pc = "done"
  /\ out_md.written
  /\ key_bytes = key_b64

\* No marker of the text decrypts under the key.
NoMarkerOfKey(text, key) ==
  \A p \in MarkerSpans(text) :
    \A c \in (p[1] + 8)..(p[2] - 3) :
      text[c] = ":" => ~decrypt_text(SubSeq(text, c + 1, p[2] - 2), key).ok

\* C1 (as stated): round trip: for any text, any key and any set of pairwise
\* non-overlapping matches over that text, decrypting the encrypted text with
\* the same key gives back exactly the original text.
C1_RoundTripAnyText ==
  RoundTripDone /\ ValidMatchSet(matches, md_text)
    => out_decrypted.content = md_text

\* C1 (amended): the round trip holds when, in addition, the text holds no
\* marker that decrypts under the key and no zero-length match stands in the
\* list before another match with the same start.
C1_RoundTrip ==
  /\ RoundTripDone
  /\ ValidMatchSet(matches, md_text)
  /\ NoEmptyMatchFirst(matches)
  /\ NoMarkerOfKey(md_text, key_b64)
  => out_decrypted.content = md_text

\* C1 witness: two non-empty matches, listed in ascending order, were
\* encrypted in a text that holds a marker of another key, and the decrypt
\* run with the same key restored the text.
C1_Witness ==
  /\ RoundTripDone
  /\ ValidMatchSet(matches, md_text)
  /\ NoEmptyMatchFirst(matches)
  /\ NoMarkerOfKey(md_text, key_b64)
  /\ MarkerSpans(md_text) # {}
  /\ Len(matches) = MaxMatches
  /\ \A i \in 1..Len(matches) : matches[i].end > matches[i].start
  /\ matches[1].start < matches[2].start
  /\ out_md.content # md_text
  /\ out_decrypted.content = md_text

\* The decrypt command has run on the input document.
DecryptDone == cmd = "decrypt" /\ pc = "done" /\ ~out_md.written

\* What decrypting one part of a document under key must give: the plaintext
\* of a marker of that key, and the part itself otherwise.
DecryptedPart(part, key) ==
  IF part.kind = "marker" /\ part.key = key THEN part.plain ELSE part.chars

\* C2: per-marker failure isolation: in the output of decrypt_markers every
\* marker that fails to decrypt is byte-identical, every decryptable marker
\* is replaced by its plaintext, and the text outside markers is unchanged
\* and in the same order.
C2_FailureIsolation ==
  DecryptDone
    => out_decrypted.content
         = Flatten([i \in 1..Len(doc) |-> DecryptedPart(doc[i], key_bytes)])

\* C2 witness: the document held plain text, a marker of the key, a marker of
\* another key and a corrupted marker were seen failing beside one that
\* decrypted.
C2_Witness ==
  /\ DecryptDone
  /\ \E i, j, k \in 1..Len(doc) :
       /\ doc[i].kind = "plain"
       /\ doc[j].kind = "marker" /\ doc[j].key = key_bytes
       /\ doc[k].kind = "marker" /\ doc[k].key # key_bytes
  /\ out_decrypted.content # dec_md_text

\* The number of markers of the text whose token does not decrypt under key.
FailedMarkers(text, key) ==
  Cardinality({i \in 1..Len(findall(text, 0)) :
                 ~decrypt_text(findall(text, 0)[i].token, key).ok})

\* C3: the decrypt command reports success together with a per-marker
\* failure count equal to the number of markers whose decryption failed.  The
\* only count the command reports is markers_decrypted of its audit event:
\* the failures it reports are the markers found less the markers it reports
\* as decrypted.
C3_FailureCountReported ==
  cmd = "decrypt" /\ pc = "done"
    => /\ exit_code = 0
       /\ encrypted_markers - audit[Len(audit)].markers_decrypted
            = FailedMarkers(dec_md_text, key_bytes)

\* C4: overlap rejection: when two matches of the set intersect (exact
\* duplicates included) the forward rewrite fails before any splice, and no
\* rewritten text is produced.
C4_OverlapRejected ==
  ~NonOverlapping(matches) => substitutions = << >> /\ ~out_md.written

\* C5: range validation: a match with start > end or end > length(text), or
\* whose text is not text[start:end], makes the forward rewrite fail before
\* any text is modified.
C5_RangeRejected ==
  (\E i \in 1..Len(matches) :
     \/ ~ValidRange(matches[i], md_text)
     \/ matches[i].text # PySlice(md_text, matches[i].start, matches[i].end))
    => substitutions = << >> /\ ~out_md.written

\* The text that results from replacing, in text, the interval of each
\* recorded match by the text inserted for it and keeping every other
\* character, built from left to right from offset p on.  Where a zero-length
\* match and another match start at the same offset, the insertion of the
\* zero-length match comes first.
RECURSIVE Rewritten(_, _, _)
Rewritten(text, subs, p) ==
  LET empties == {i \in 1..Len(subs) : subs[i][1].start = p /\ subs[i][1].end = p}
      fulls   == {i \in 1..Len(subs) : subs[i][1].start = p /\ subs[i][1].end > p}
      e       == IF empties = {} THEN << >> ELSE subs[CHOOSE i \in empties : TRUE][2]
  IN  IF fulls # {}
      THEN LET i == CHOOSE i \in fulls : TRUE
           IN  e \o subs[i][2] \o Rewritten(text, subs, subs[i][1].end)
      ELSE IF p >= Len(text) THEN e
      ELSE e \o << text[p + 1] >> \o Rewritten(text, subs, p + 1)

\* Every match of the set was spliced exactly once.
AllSpliced ==
  /\ Len(substitutions) = Len(matches)
  /\ \A i \in 1..Len(matches) :
       Cardinality({j \in 1..Len(substitutions) : substitutions[j][1] = matches[i]})
         = Cardinality({j \in 1..Len(matches) : matches[j] = matches[i]})

RECURSIVE SumLen(_)
SumLen(texts) == IF texts = << >> THEN 0 ELSE Len(Head(texts)) + SumLen(Tail(texts))

\* C7: length invariant: after a forward rewrite over N disjoint matches,
\* len(output) = len(input) - sum of len(match.text) + sum of the lengths of
\* the substitutions inserted.
C7_LengthInvariant ==
  out_md.written /\ ValidMatchSet(matches, md_text)
    => Len(out_md.content)
         = Len(md_text)
             - SumLen([i \in 1..Len(matches) |-> matches[i].text])
             + SumLen([i \in 1..Len(substitutions) |-> substitutions[i][2]])

\* C7 witness: a rewrite over two disjoint non-empty matches whose
\* substitutions have other lengths than the matched texts.
C7_Witness ==
  /\ out_md.written
  /\ ValidMatchSet(matches, md_text)
  /\ Len(matches) = MaxMatches
  /\ Len(substitutions) = MaxMatches
  /\ \A i \in 1..Len(matches) :
       /\ matches[i].end > matches[i].start
       /\ Len(substitutions[i][2]) # Len(substitutions[i][1].text)
  /\ Len(out_md.content) # Len(md_text)

\* The match of Scenario A.
ScenarioMatch ==
  [start       |-> 9,
   end         |-> 26,
   entity_type |-> EMAIL_ADDRESS,
   score       |-> 85,
   text        |-> ScenarioA[2].chars,
   line        |-> 1,
   column      |-> 10]

ScenarioRun == doc = ScenarioA /\ mode = "encrypt" /\ matches = << ScenarioMatch >>

\* C8: Scenario A: encrypting "Contact: john@example.com" with the match
\* {9, 26, EMAIL_ADDRESS, "john@example.com"} yields
\* "Contact: {{ENC:EMAIL_ADDRESS:<token>}}", and decrypting that output with
\* the same key yields exactly the original string.
C8_ScenarioA ==
  ScenarioRun
    => /\ out_md.written =>
            LET out  == out_md.content
                head == ScenarioA[1].chars \o << "{", "{", "E", "N", "C", ":" >>
                          \o EMAIL_ADDRESS \o << ":" >>
            IN  /\ PySlice(out, 0, Len(head)) = head
                /\ IsMarker(PyFrom(out, Len(ScenarioA[1].chars)))
       /\ RoundTripDone => out_decrypted.content = Text(ScenarioA)

\* C8 witness: the scenario was encrypted and then decrypted with the key.
C8_Witness ==
  /\ ScenarioRun
  /\ RoundTripDone
  /\ out_md.content # Text(ScenarioA)
  /\ out_decrypted.content = Text(ScenarioA)

\* C9: idempotence of decrypt on marker-free text: a text that holds no
\* substring matching the marker grammar is returned unchanged, for any key.
C9_DecryptIdempotent ==
  cmd = "decrypt" /\ pc = "done" /\ MarkerSpans(dec_md_text) = {}
    => out_decrypted.content = dec_md_text

\* C9 witness: decrypt ran on a marker-free text that holds text and the
\* beginning of a marker.
C9_Witness ==
  /\ DecryptDone
  /\ MarkerSpans(dec_md_text) = {}
  /\ \E i, j \in 1..Len(doc) : doc[i] = IncompleteMarker /\ doc[j] = Letter(1)
  /\ out_decrypted.content = dec_md_text

\* C10: for every match that encrypt mode rewrites, the inserted text is
\* exactly "{{ENC:" + entity_type + ":" + token + "}}" and a full match of the
\* marker grammar, and a scan of the output finds it as one marker that spans
\* exactly the inserted text, with the same entity type and token.
C10_MarkerFound ==
  out_md.written /\ mode = "encrypt"
    => \A i \in 1..Len(substitutions) :
         LET m        == substitutions[i][1]
             inserted == substitutions[i][2]
             head     == << "{", "{", "E", "N", "C", ":" >> \o m.entity_type \o << ":" >>
             token    == SubSeq(inserted, Len(head) + 1, Len(inserted) - 2)
             found    == findall(out_md.content, 0)
         IN  /\ inserted = safe_token(m.entity_type, token)
             /\ IsMarker(inserted)
             /\ \E k \in 1..Len(found) :
                  /\ PySlice(out_md.content, found[k].start, found[k].end) = inserted
                  /\ found[k].entity = m.entity_type
                  /\ found[k].token = token

\* The number of a placeholder inserted for m: what stands between
\* "[" entity_type "_" and "]".
PlaceholderNumber(m, inserted) ==
  SubSeq(inserted, Len(m.entity_type) + 3, Len(inserted) - 1)

\* A decimal numeral of an integer in 0..9999, as str() writes it.
IsNumeral(d) ==
  /\ Len(d) \in 1..4
  /\ \A i \in 1..Len(d) : d[i] \in DIGIT
  /\ Len(d) > 1 => d[1] # "0"

\* C11: in anonymize mode every match is replaced by
\* "[" + entity_type + "_" + n + "]" with n an integer in 0..9999, and two
\* matches with equal text in the same call receive the same n.
C11_Placeholder ==
  mode = "anonymize"
    => /\ out_md.written => AllSpliced
       /\ \A i \in 1..Len(substitutions) :
            LET m  == substitutions[i][1]
                n  == PlaceholderNumber(m, substitutions[i][2])
            IN  /\ substitutions[i][2]
                     = << "[" >> \o m.entity_type \o << "_" >> \o n \o << "]" >>
                /\ IsNumeral(n)
                /\ \A j \in 1..Len(substitutions) :
                     substitutions[j][1].text = m.text
                       => PlaceholderNumber(substitutions[j][1], substitutions[j][2]) = n

\* C11 witness: an anonymize run replaced two matches of the same non-empty
\* text that stand at different offsets and have different entity types.
C11_Witness ==
  /\ mode = "anonymize"
  /\ out_md.written
  /\ Len(substitutions) = MaxMatches
  /\ \E i, j \in 1..Len(substitutions) :
       /\ substitutions[i][1].text = substitutions[j][1].text
       /\ substitutions[i][1].text # << >>
       /\ substitutions[i][1].start # substitutions[j][1].start
       /\ substitutions[i][1].entity_type # substitutions[j][1].entity_type
       /\ substitutions[i][2] # substitutions[j][2]

\* C12: anonymization is reproducible across runs: a run of anonymize mode
\* in any other process (any hash seed) on the same text with the same match
\* set writes a byte-identical output.
C12_Reproducible ==
  mode = "anonymize" /\ out_md.written
    => \A seed \in HashSeeds :
         apply_anonymization_replacements(md_text, matches, seed) = out_md.content

\* The number of lines of standard output that carry the key.
KeyLines(key) ==
  Cardinality({i \in 1..Len(stdout) : stdout[i] = << "Generated key", key >>})

\* C13: in every successful encrypt-mode run in which no key was supplied
\* and a fresh key was generated, the generated key is surfaced to the caller
\* exactly once.  Standard output is the only channel on which the command
\* gives the key: it is in no file and in no audit event.
C13_KeySurfacedOnce ==
  cmd = "encrypt" /\ mode = "encrypt" /\ args_key = "none" /\ pc = "done"
    => exit_code = 0 /\ key_b64 \in generate_key /\ KeyLines(key_b64) = 1

\* The number of newlines among the first n characters of text.
NewlinesBefore(text, n) == Cardinality({i \in 1..n : text[i] = "\n"})

\* The offset at which the line that holds offset n begins: the offset after
\* the last newline before n, 0 when there is none.
LineStart(text, n) ==
  LET ends == {i \in 1..n : text[i] = "\n"}
  IN  IF ends = {} THEN 0 ELSE CHOOSE i \in ends : \A j \in ends : j <= i

\* C14: offset resolution: for every text and every offset in
\* [0, length(text)], end of text included, the result is line = 1 + the
\* number of newlines strictly before the offset and column = 1 + offset -
\* the start offset of that line; offset 0 resolves to (1, 1), and the offset
\* immediately after a newline on line L resolves to (L + 1, 1).
C14_OffsetResolution ==
  pc = "resolved"
    => /\ line_col.line = 1 + NewlinesBefore(md_text, offset)
       /\ line_col.column = 1 + offset - LineStart(md_text, offset)
       /\ offset = 0 => line_col = [line |-> 1, column |-> 1]
       /\ (offset > 0 /\ md_text[offset] = "\n")
            => line_col = [line   |-> 2 + NewlinesBefore(md_text, offset - 1),
                           column |-> 1]

\* C14 witness: the end of a text of MaxChars characters, on its second line
\* and in its second column, was resolved.
C14_Witness ==
  /\ pc = "resolved"
  /\ Len(md_text) = MaxChars
  /\ offset = Len(md_text)
  /\ line_col.line = 2
  /\ line_col.column = 2

\* C15: fail-closed detection: if the detector cannot be built or its
\* analysis call fails, the encrypt command, in either forward mode, does not
\* return success and writes neither a rewritten document nor a report; the
\* failure is never treated as an empty match set (no rewrite is started, no
\* event of a completed run is logged).
C15_FailClosed ==
  error \in DetectorErrors
    => /\ pc = "failed"
       /\ exit_code = 1
       /\ ~out_md.written
       /\ ~report.written
       /\ matches_sorted = << >> /\ buf = << >> /\ substitutions = << >>
       /\ audit = << >>
       /\ stdout = << >>

\* C15 witness: an anonymize run on a non-empty text ended at the failure of
\* the detector.
C15_Witness ==
  /\ error \in DetectorErrors
  /\ cmd = "encrypt"
  /\ mode = "anonymize"
  /\ md_text # << >>
  /\ exit_code = 1

\* The run was given a key that is no Fernet key, and uses a key (the decrypt
\* command, the encrypt command in encrypt mode).
MalformedKeyGiven ==
  /\ args_key \in GivenKeys \ Keys
  /\ cmd = "decrypt" \/ mode = "encrypt"

\* C16: a malformed key supplied to the encrypt or decrypt command is
\* surfaced immediately as an input error: the command ends without success
\* and before any output document, report or output directory is written,
\* whatever the document contains.
C16_MalformedKeyRejected ==
  MalformedKeyGiven /\ pc # "args"
    => /\ pc = "failed"
       /\ exit_code = 1
       /\ ~out_md.written
       /\ ~out_decrypted.written
       /\ ~report.written
       /\ ~outdir

\* The encrypt command failed at a step before the rewrite was complete: the
\* input check, the key, the detector, a cipher call.  (OSError is the
\* failure of the report, after the rewrite.)
FailedBeforeRewritten == cmd = "encrypt" /\ pc = "failed" /\ error # "OSError"

\* No file holds a partly rewritten text: the output document exists only
\* once every match of the set was spliced, and holds the buffer of that
\* rewrite; the Markdown a PDF input was converted to, which the command
\* reads, holds the text as converted.
NoPartialFile ==
  /\ FailedBeforeRewritten => ~out_md.written
  /\ out_md.written
       => AllSpliced /\ matches_sorted = << >> /\ out_md.content = buf
  /\ work_md.written => work_md.content = Text(doc)

C18_ReportFailureNonFatal ==
  cmd = "encrypt" /\ error = "OSError"
    => /\ out_md.written
       /\ exit_code = 0
       /\ Len(audit) = 1
       /\ stdout = encrypt_prints(mode, args_key, print_key, key_b64)

\* C19: the report built for a match set has total equal to the number of
\* matches and lists the matches in the order of the match set, each entry
\* carrying start, end, entity type, score, text, line and column equal to
\* the match's own values, those of the text before the rewrite; the report
\* is the same whether the run used encrypt or anonymize mode (nothing of
\* the mode, the key or the rewritten text is in it).
C19_Report ==
  report.written
    => /\ report.content.total = Len(matches)
       /\ Len(report.content.matches) = Len(matches)
       /\ \A i \in 1..Len(matches) :
            LET e == report.content.matches[i]
                m == matches[i]
            IN  /\ DOMAIN e = {"start", "end", "entity_type", "score", "text",
                               "line", "column"}
                /\ e.start = m.start /\ e.end = m.end
                /\ e.entity_type = m.entity_type
                /\ e.score = m.score
                /\ e.text = m.text
                /\ e.text = PySlice(Text(doc), m.start, m.end)
                /\ e.line = m.line /\ e.column = m.column
                /\ e.line = 1 + NewlinesBefore(Text(doc), m.start)
                /\ e.column = 1 + m.start - LineStart(Text(doc), m.start)
       /\ DOMAIN report.content = {"file", "total", "matches"}
       /\ report.content.file = OutputName

\* C19 witness: encrypt mode wrote a report for two matches that the
\* detector listed in descending order of start and with different scores,
\* after the text was rewritten.
C19_Witness ==
  /\ report.written
  /\ mode = "encrypt"
  /\ Len(matches) = MaxMatches
  /\ matches[1].start > matches[2].start
  /\ matches[1].score # matches[2].score
  /\ matches[1].text # << >>
  /\ out_md.content # md_text
  /\ report.content.matches[1].text = matches[1].text

\* The metadata of a run of the encrypt command: the file names, the mode,
\* the number of matches of each entity type.
RECURSIVE CountTypes(_)
CountTypes(types) ==
  IF types = << >> THEN << >>
  ELSE LET rest == CountTypes(Tail(types))
           t    == Head(types)
       IN  IF t \in DOMAIN rest
           THEN [rest EXCEPT ![t] = @ + 1]
           ELSE (t :> 1) @@ rest

EncryptMetadata ==
  [operation     |-> << "pii", mode >>,
   file          |-> InputName(input_ext),
   user          |-> "USER",
   mode          |-> mode,
   pii_total     |-> Len(matches),
   entity_counts |-> CountTypes([i \in 1..Len(matches) |-> matches[i].entity_type]),
   output_file   |-> OutputName,
   report_file   |-> ReportName]

\* The metadata of a run of the decrypt command: the file names and the
\* number of markers of its input.
DecryptMetadata ==
  [operation         |-> << "pii", "decrypt" >>,
   file              |-> IF out_md.written THEN OutputName ELSE InputName(input_ext),
   user              |-> "USER",
   markers_decrypted |-> Len(findall(dec_md_text, 0)),
   output_file       |-> DecryptedName]

\* C20: key material and document content are never logged: every audit
\* event of the encrypt and decrypt commands is made of metadata only (the
\* operation, the file names, the user, the mode, the number of matches per
\* entity type or the number of markers), so that two runs that differ only
\* in the key and in the characters of the document log the same events.
C20_AuditMetadataOnly ==
  /\ Len(audit) <= 2
  /\ \A i \in 1..Len(audit) :
       IF audit[i].operation = << "pii", "decrypt" >>
       THEN cmd = "decrypt" /\ pc = "done" /\ audit[i] = DecryptMetadata
       ELSE i = 1 /\ out_md.written /\ audit[i] = EncryptMetadata
  /\ pc = "done" => audit # << >>

\* C20 witness: an encrypt run with a generated key logged its event for a
\* text with matches of two entity types, and a decrypt run of the output
\* logged its event for the markers it found.
C20_Witness ==
  /\ Len(audit) = 2
  /\ key_b64 \in Keys
  /\ print_key
  /\ DOMAIN audit[1].entity_counts = {PERSON, EMAIL_ADDRESS}
  /\ audit[1].pii_total = MaxMatches
  /\ audit[2].markers_decrypted > 0
  /\ key_bytes \in Keys

\* The rewrite loop is about to splice the match at the head of
\* matches_sorted.
AtSplice == pc = "splicing" /\ matches_sorted # << >>

\* The matches spliced so far were spliced in descending order of start, and
\* the next one starts no later than any of them.
DescendingSoFar ==
  \A i \in 1..Len(substitutions) :
    /\ substitutions[i][1].start >= Head(matches_sorted).start
    /\ \A j \in 1..Len(substitutions) :
         i < j => substitutions[i][1].start >= substitutions[j][1].start

\* The buffer still begins with the original text up to the end of the next
\* match, so that its offsets address its original span in the buffer.
PrefixKept ==
  LET m == Head(matches_sorted)
  IN  /\ PySlice(buf, 0, m.end) = PySlice(md_text, 0, m.end)
      /\ PySlice(buf, m.start, m.end) = m.text

TerminalEvents == {"container_complete", "container_error"}

\* The terminal events the audit log holds after its line i.
TerminalAfter(i) ==
  {j \in (i + 1)..Len(container_audit) :
     container_audit[j].operation \in TerminalEvents}

\* Every write to the audit log went through.
AuditWritten ==
  \A k \in 1..Len(container_stderr) :
    container_stderr[k] # "Warning: Could not write to audit log"

\* C22: when process_in_container has returned, and no write to the audit
\* log failed, every "container_start" event of the audit log is followed by
\* exactly one terminal event ("container_complete" or "container_error"),
\* whatever the outcome of the container run was.
C22_StartClosedOnce ==
  container_pc = "returned" /\ AuditWritten =>
    \A i \in 1..Len(container_audit) :
      container_audit[i].operation = "container_start"
        => Cardinality(TerminalAfter(i)) = 1

\* ---------------------------------------------------------------------------
\* C23: what the cleanup command removes.
\* ---------------------------------------------------------------------------

\* The files and the directories one step removes.
RemovedFiles == Range(tree.files) \ Range(tree'.files)

RemovedDirs == tree.dirs \ tree'.dirs

\* The answer typed at the confirmation is "y", as main() reads it: blanks
\* around it and its case are ignored.
AnsweredYes == lower(strip(confirm)) = << "y" >>

RemovalGuarded ==
  /\ \A f \in RemovedFiles :
       /\ f.mtime < cutoff(cleanup_args.retention_days)
       /\ pattern_matches(f.name, cleanup_args.patterns)
       /\ ~cleanup_args.dry_run
       /\ AnsweredYes
  /\ cleanup_args.dry_run => RemovedFiles = {} /\ RemovedDirs = {}

\* C23: every step of the cleanup command removes a file only if the file's
\* modification time is older than the retention cutoff, its name matches
\* one of the given patterns (or no pattern was given), the run is not a dry
\* run, and the answer to the confirmation was "y"; in a dry run no step
\* removes a file or a directory.
C23_RemovalGuarded == [][RemovalGuarded]_vars

\* A run that is no dry run has removed an old file that matched after the
\* answer "Y", and has kept a file that is not older than the cutoff.
C23_Witness ==
  /\ cleanup_pc = "deleted"
  /\ ~cleanup_args.dry_run
  /\ cleanup_args.patterns # << >>
  /\ confirm = << "Y" >>
  /\ success > 0
  /\ \E f \in Range(old_files) : f \notin Range(tree.files)
  /\ \E g \in Range(tree.files) :
       g.mtime >= cutoff(cleanup_args.retention_days)

====
